---- MODULE Spec2Model ----
(***************************************************************************)
(* A model of the multigig-bot alert engine: the cron-driven orchestration *)
(* loop of src/index.js (schedule parsing, due-check, per-alert pipeline   *)
(* with its awaits, RunState bookkeeping and persistence), the chaos       *)
(* scheduler service, and the stateful milestone alerts.                   *)
(*                                                                         *)
(* Conventions.  Times are milliseconds as in the code.  The clock starts  *)
(* at StartTime instead of at the present epoch value so that every time   *)
(* fits a 32-bit integer; StartTime exceeds every interval of  *)
(* the registry, as the real clock does.  Byte totals are counted in GiB.  *)
(* JavaScript strings that the code takes apart (schedule strings) are     *)
(* sequences of one-character strings.  A JavaScript value that may be     *)
(* undefined, a number or a string is a record [k, n, s] with a kind tag.  *)
(***************************************************************************)
EXTENDS Integers, Sequences, FiniteSets, TLC

VARIABLES
    now,          \* Date.now(): the wall clock, ms
    alerts,       \* the registry `alerts` built at start-up (index.js:391-414)
    lastRuns,     \* the in-memory RunState `lastRuns` (index.js:483)
    lastRunsFile, \* content of lastRuns.json
    ticks,        \* the cron callbacks in flight, oldest first, each at an await
    ticksStarted, \* number of cron callbacks started so far
    restarts,     \* number of process restarts so far
    env,          \* the process environment (test-mode variables)
    dueLog,       \* the due-checks made by the last step
    lastCompl,    \* the alert evaluation completed by the last step
    lastDone,     \* the callback that returned or rejected in the last step
    lastEval,     \* per alert: when its latest evaluation started, 0 if never
    dailyHist,    \* the runs recorded for daily alerts: date, process, saved
    site,         \* state of the site download milestone alert (see SiteInit)
    cum,          \* state of the cumulative data milestone alert (see CumInit)
    chaos,        \* state of the chaos scheduler (see ChaosInit)
    config,       \* config.json as read at start-up and the hour checks made with it
    parsed,       \* a schedule string and what parseSchedule made of it
    hook,         \* the rate limiter of the console.error hook (see HookInit)
    tw,           \* state of the Collective Time Wasted alert (see TwInit)
    speed         \* state of the Dramatic Speed Change alert (see SpeedInit)

vars == <<now, alerts, lastRuns, lastRunsFile, ticks, ticksStarted, restarts, env,
          dueLog, lastCompl, lastDone, lastEval, dailyHist, site, cum, chaos, config,
          parsed, hook, tw, speed>>

-----------------------------------------------------------------------------
(* Bounds of the model *)

\* cron callbacks started in one behaviour
MaxTicks == 2
\* process restarts in one behaviour
MaxRestarts == 1
\* cron callbacks suspended at the same time
MaxInFlight == 2

-----------------------------------------------------------------------------
(* Time *)

Minute == 60 * 1000
Hour == 60 * 60 * 1000
Day == 24 * 60 * 60 * 1000

\* 1970-01-13 13:59 UTC, which is 08:59 in America/New_York
StartTime == 12 * Day + 13 * Hour + 59 * Minute

Min(a, b) == IF a <= b THEN a ELSE b
Max(a, b) == IF a >= b THEN a ELSE b

-----------------------------------------------------------------------------
(* JavaScript values *)

Undef == [k |-> "undef", n |-> 0, s |-> <<>>]
Num(x) == [k |-> "num", n |-> x, s |-> <<>>]
Str(cs) == [k |-> "str", n |-> 0, s |-> cs]

\* JavaScript truthiness: undefined, 0 and "" are falsy
Truthy(v) ==
    CASE v.k = "undef" -> FALSE
      [] v.k = "num" -> v.n # 0
      [] v.k = "str" -> v.s # <<>>
      [] OTHER -> TRUE

\* a || b
OrElse(a, b) == IF Truthy(a) THEN a ELSE b

Digits == {"0", "1", "2", "3", "4", "5", "6", "7", "8", "9"}

DigitVal(c) ==
    CASE c = "0" -> 0 [] c = "1" -> 1 [] c = "2" -> 2 [] c = "3" -> 3
      [] c = "4" -> 4 [] c = "5" -> 5 [] c = "6" -> 6 [] c = "7" -> 7
      [] c = "8" -> 8 [] c = "9" -> 9

\* parseInt of a string of decimal digits
RECURSIVE ParseInt(_)
ParseInt(cs) ==
    IF cs = <<>> THEN 0
    ELSE 10 * ParseInt(SubSeq(cs, 1, Len(cs) - 1)) + DigitVal(cs[Len(cs)])

AllDigits(cs) == \A i \in 1..Len(cs) : cs[i] \in Digits

\* the schedule strings of the repository
S_daily == <<"d", "a", "i", "l", "y">>
S_hourly == <<"h", "o", "u", "r", "l", "y">>
S_weekly == <<"w", "e", "e", "k", "l", "y">>
S_minute == <<"m", "i", "n", "u", "t", "e">>
S_chaos == <<"c", "h", "a", "o", "s">>
S_chaosColon == <<"c", "h", "a", "o", "s", ":">>
S_1m == <<"1", "m">>
S_10m == <<"1", "0", "m">>
S_15m == <<"1", "5", "m">>
S_3h == <<"3", "h">>
S_12h == <<"1", "2", "h">>
S_chaos10m == S_chaosColon \o S_10m
\* a name every JavaScript object inherits from Object.prototype
S_constructor == <<"c", "o", "n", "s", "t", "r", "u", "c", "t", "o", "r">>

-----------------------------------------------------------------------------
(* Schedule parsing: src/index.js parseSchedule *)

UnitMs(u) ==
    CASE u = "s" -> 1000
      [] u = "m" -> 60 * 1000
      [] u = "h" -> 60 * 60 * 1000
      [] u = "d" -> 24 * 60 * 60 * 1000

\* schedule.match(/^(\d+)([smhd])$/)
MatchesInterval(cs) ==
    /\ Len(cs) >= 2
    /\ cs[Len(cs)] \in {"s", "m", "h", "d"}
    /\ AllDigits(SubSeq(cs, 1, Len(cs) - 1))

IntervalValue(cs) == ParseInt(SubSeq(cs, 1, Len(cs) - 1)) * UnitMs(cs[Len(cs)])

\* schedules[schedule]: a property lookup on an object literal, which also finds
\* what the literal inherits from Object.prototype (a function or object
\* value, kind "obj")
SchedulesLookup(v) ==
    IF v.k = "str" /\ v.s = S_hourly THEN Num(60 * 60 * 1000)
    ELSE IF v.k = "str" /\ v.s = S_weekly THEN Num(7 * 24 * 60 * 60 * 1000)
    ELSE IF v.k = "str" /\ v.s = S_minute THEN Num(60 * 1000)
    ELSE IF v.k = "str" /\ v.s = S_constructor THEN ([k |-> "obj", n |-> 0, s |-> <<>>])
    ELSE Undef

Daily == [k |-> "daily", n |-> 0, s |-> <<>>]
Throws == [k |-> "throw", n |-> 0, s |-> <<>>]

\* The result is a number, the marker TIME_BASED_DAILY (Daily), an inherited
\* property (Obj), or a TypeError (Throws): schedule.match on a non-string.
parseSchedule(schedule) ==
    IF ~Truthy(schedule) THEN Num(60000)
    ELSE IF schedule.k = "str" /\ schedule.s = S_daily THEN Daily
    ELSE IF Truthy(SchedulesLookup(schedule)) THEN SchedulesLookup(schedule)
    ELSE IF schedule.k # "str" THEN Throws
    ELSE IF MatchesInterval(schedule.s) THEN Num(IntervalValue(schedule.s))
    ELSE Num(60000)

-----------------------------------------------------------------------------
(* Chaos schedule parsing: src/services/chaosScheduler.js *)

\* schedule && (schedule === "chaos" || schedule.startsWith("chaos:"))
isChaosSchedule(schedule) ==
    /\ Truthy(schedule)
    /\ schedule.k = "str"
    /\ \/ schedule.s = S_chaos
       \/ /\ Len(schedule.s) >= Len(S_chaosColon)
          /\ SubSeq(schedule.s, 1, Len(S_chaosColon)) = S_chaosColon

parseTimeInterval(cs) ==
    IF MatchesInterval(cs) THEN IntervalValue(cs) ELSE 15 * 60 * 1000

\* for a string schedule
parseChaosSchedule(cs) ==
    IF cs = S_chaos THEN parseTimeInterval(S_15m)
    ELSE IF Len(cs) > Len(S_chaosColon)
            /\ SubSeq(cs, 1, Len(S_chaosColon)) = S_chaosColon
         THEN parseTimeInterval(SubSeq(cs, Len(S_chaosColon) + 1, Len(cs)))
    ELSE parseTimeInterval(S_15m)

-----------------------------------------------------------------------------
(* Civil time in the alert timezone: src/index.js 332-354 *)

\* America/New_York in the modelled period (January: UTC-5)
TzOffset == 0 - 5 * Hour

\* the civil date <<year, month, day>> of the day number z (days since 1970-01-01)
CivilFromDays(days) ==
    LET z == days + 719468
        era == z \div 146097
        doe == z - era * 146097
        yoe == (doe - doe \div 1460 + doe \div 36524 - doe \div 146096) \div 365
        doy == doe - (365 * yoe + yoe \div 4 - yoe \div 100)
        mp == (5 * doy + 2) \div 153
        d == doy - (153 * mp + 2) \div 5 + 1
        m == IF mp < 10 THEN mp + 3 ELSE mp - 9
        y == yoe + era * 400 + (IF m <= 2 THEN 1 ELSE 0)
    IN  <<y, m, d>>

\* toLocaleDateString("en-CA", {timeZone, year, month, day}): "YYYY-MM-DD"
getCurrentDateInTimezone(t) == Str(CivilFromDays((t + TzOffset) \div Day))

\* parseInt(toLocaleString("en-US", {timeZone, hour: "numeric", hour12: false}))
CurrentHour(t) == ((t + TzOffset) \div Hour) % 24

DefaultDailyAlertHour == 9

\* finalConfig (index.js:196-215) carries neither timezone nor dailyAlertHour,
\* so `config.dailyAlertHour || 9` is always 9 and the timezone the default
isCurrentlyDailyAlertHour(t) == CurrentHour(t) = DefaultDailyAlertHour

-----------------------------------------------------------------------------
(* The alert modules: src/alerts/*.js.  `kind` names the shape of the      *)
(* module's condition and message functions (see Condition, Message);      *)
(* `wrapped` says whether the condition was built by createChaosCondition. *)

Alert(name, schedule, kind) ==
    [name |-> name, schedule |-> schedule, kind |-> kind, wrapped |-> FALSE]

ChaosExampleAlert == Alert("Chaos Scheduling Example", Str(S_chaos10m), "hasData")
CumulativeDataAlert == Alert("Cumulative Data Milestone Alert", Str(<<"5", "m">>), "guarded")
ManualTestAlert == Alert("Manual Webhook Test Alert", Str(S_1m), "webhookTest")
DailyWinnersAlert == Alert("Daily Performance Winners", Str(S_daily), "hasData")
DramaticSpeedAlert == Alert("Dramatic Speed Change Alert", Str(<<"2", "m">>), "guarded")
HighLatencyAlert == Alert("Worst Latency Award", Str(S_12h), "hasData")
PacketLossAlert == Alert("Real-time Packet Loss Alert", Str(S_1m), "guarded")
SiteDownloadAlert == Alert("Site Download Milestones Alert", Str(S_10m), "guarded")
SiteUploadAlert == Alert("Site Upload Milestone Achievements", Str(S_10m), "guarded")
TimeWastedAlert == Alert("Collective Time Wasted Alert", Str(S_15m), "guarded")
TimeWastedChaosAlert ==
    Alert("Collective Time Wasted Chaos Alert", Str(S_chaosColon \o <<"2", "0", "m">>),
          "testGuarded")
SentinelAlert == Alert("Digital Sentinel Status Report", Str(S_3h), "always")

\* every alert module of the repository
AllAlerts ==
    {ChaosExampleAlert, CumulativeDataAlert, ManualTestAlert, DailyWinnersAlert,
     DramaticSpeedAlert, HighLatencyAlert, PacketLossAlert, SiteDownloadAlert,
     SiteUploadAlert, TimeWastedAlert, TimeWastedChaosAlert, SentinelAlert}

\* the registry the loop is run on: three modules, in directory order
Registry == <<ChaosExampleAlert, DailyWinnersAlert, SentinelAlert>>

\* process.env: TEST_MODE === "true", TEST_WEBHOOK === "true",
\* TEST_ERROR_LOGGING === "true", NODE_ENV === "test"
Envs ==
    [TEST_MODE : BOOLEAN, TEST_WEBHOOK : BOOLEAN, TEST_ERROR_LOGGING : BOOLEAN,
     NODE_ENV_test : BOOLEAN]

ProductionEnv ==
    [TEST_MODE |-> FALSE, TEST_WEBHOOK |-> FALSE, TEST_ERROR_LOGGING |-> FALSE,
     NODE_ENV_test |-> FALSE]

\* the isTestMode of the orchestration loop (index.js:22-26)
isTestMode(e) == e.TEST_MODE \/ e.TEST_WEBHOOK \/ e.TEST_ERROR_LOGGING \/ e.NODE_ENV_test

\* the two webhook clients (index.js:218-224)
webhookClient == "main"
alertWebhookClient == "alert"

\* a loop that sends every celebration on the main webhook
AlwaysMainWebhook(e) == webhookClient

\* index.js:227-235
getAlertWebhookClient(e) == IF isTestMode(e) THEN alertWebhookClient ELSE webhookClient

\* the isTestMode of the example alerts' conditions
AlertTestMode(e) == e.TEST_MODE \/ e.TEST_WEBHOOK \/ e.NODE_ENV_test

\* conditions that read results[0] without a guard: they throw on null
ConditionUnguarded(a, results, e) ==
    IF results = "null" THEN {"throw"}
    ELSE IF results = "rows" THEN {"true", "false", "throw"} ELSE {"false"}

\* alert.condition(results): the set of possible outcomes.  On rows the outcome
\* of a data-dependent condition depends on the data and on the module's state
\* file; it throws on data or state of an unexpected shape.
Condition(a, results, e) ==
    CASE a.kind = "hasData" ->
            \* return results && results.length > 0
            IF results = "rows" THEN {"true"} ELSE {"false"}
      [] a.kind = "guarded" ->
            \* if (!results || results.length === 0) return false; ...
            IF results = "rows" THEN {"true", "false", "throw"} ELSE {"false"}
      [] a.kind = "testGuarded" ->
            \* if (!isTestMode) return false; then as above
            IF ~AlertTestMode(e) THEN {"false"}
            ELSE IF results = "rows" THEN {"true", "false", "throw"} ELSE {"false"}
      [] a.kind = "webhookTest" ->
            \* if (process.env.TEST_WEBHOOK !== "true") return false; return true
            IF e.TEST_WEBHOOK THEN {"true"} ELSE {"false"}
      [] a.kind = "always" -> {"true"}

\* alert.message(results): "ok" (a string is returned) or "throw".  On rows a
\* message reads fields of each row and throws on a row that is not an object.
\* Without rows, the two modules whose condition can be true then (Digital
\* Sentinel Status Report, Manual Webhook Test Alert) test
\* `results && results.length > 0` first; of the others some return a fixed
\* text and some read results[0].
Message(a, results) ==
    IF results = "rows" THEN {"ok", "throw"}
    ELSE IF a.kind \in {"always", "webhookTest"} THEN {"ok"}
    ELSE {"ok", "throw"}

\* message is called only after a condition that returned a truthy value
MessageAfter(a, results, co) == IF co = "true" THEN Message(a, results) ELSE {"ok"}

\* the draw of a condition built by createChaosCondition; the conditions of
\* the registry are the modules' own (index.js:399-404) and draw nothing
Draws(a) == IF a.wrapped THEN BOOLEAN ELSE {TRUE}

-----------------------------------------------------------------------------
(* The due-check: src/index.js shouldRunAlert *)

\* a - b on numbers; a date string such as "1970-01-13" converts to NaN
JsMinus(a, b) ==
    IF a.k = "num" /\ b.k = "num" THEN Num(a.n - b.n)
    ELSE [k |-> "nan", n |-> 0, s |-> <<>>]

\* a >= b: false as soon as one side is not a number (NaN, a function)
JsGe(a, b) == a.k = "num" /\ b.k = "num" /\ a.n >= b.n

\* a due-check that compares with > where the code compares with >=
shouldRunAlertStrict(a, lr, t) ==
    LET scheduleResult == parseSchedule(a.schedule) IN
    IF scheduleResult = Throws THEN "throw"
    ELSE IF scheduleResult = Daily THEN
        IF ~isCurrentlyDailyAlertHour(t) THEN "skip"
        ELSE IF lr[a.name] = getCurrentDateInTimezone(t) THEN "skip"
        ELSE "due"
    ELSE
        LET lastRun == OrElse(lr[a.name], Num(0)) IN
        IF JsGe(JsMinus(Num(t), lastRun), scheduleResult)
           /\ JsMinus(Num(t), lastRun) # scheduleResult
        THEN "due" ELSE "skip"

\* "due", "skip", or "throw" when parseSchedule throws
shouldRunAlert(a, lr, t) ==
    LET scheduleResult == parseSchedule(a.schedule) IN
    IF scheduleResult = Throws THEN "throw"
    ELSE IF scheduleResult = Daily THEN
        IF ~isCurrentlyDailyAlertHour(t) THEN "skip"
        ELSE IF lr[a.name] = getCurrentDateInTimezone(t) THEN "skip"
        ELSE "due"
    ELSE
        LET lastRun == OrElse(lr[a.name], Num(0)) IN
        IF JsGe(JsMinus(Num(t), lastRun), scheduleResult) THEN "due" ELSE "skip"

\* a loop that sets no marker after a run
SkipLastRunUpdate(lr, a, t) == lr

\* a loop that stores a timestamp for every cadence
TimestampLastRun(lr, a, t) == [lr EXCEPT ![a.name] = Num(t)]

\* a loop that stamps the entry of every alert after a run
TimestampEveryAlert(lr, a, t) == [nm \in DOMAIN lr |-> Num(t)]

\* index.js:591-600, the RunState update after a run
UpdateLastRun(lr, a, t) ==
    IF parseSchedule(a.schedule) = Daily
    THEN [lr EXCEPT ![a.name] = getCurrentDateInTimezone(t)]
    ELSE [lr EXCEPT ![a.name] = Num(t)]

\* a catch block that leaves the RunState as it is
KeepLastRun(lr, a, t) == lr

\* index.js:624-633, the RunState update in the per-alert catch block
CatchUpdateLastRun(lr, a, t) ==
    IF parseSchedule(a.schedule) = Daily
    THEN [lr EXCEPT ![a.name] = getCurrentDateInTimezone(t)]
    ELSE [lr EXCEPT ![a.name] = Num(t)]

\* a serializer that keeps numbers only
JsonNumbersOnly(v) == IF v.k = "num" THEN v ELSE Undef

\* what JSON.parse reads back for a property value written by JSON.stringify
\* (index.js:276 and 252): a number or a string as it was, null for NaN,
\* nothing for undefined or a function (the property is left out)
JsonValue(v) ==
    CASE v.k \in {"num", "str"} -> v
      [] v.k = "nan" -> ([k |-> "null", n |-> 0, s |-> <<>>])
      [] OTHER -> Undef

\* lastRuns.json: absent, or the saved object
NoFile == [exists |-> FALSE, data |-> <<>>]
FileOf(lr) == [exists |-> TRUE, data |-> [nm \in DOMAIN lr |-> JsonValue(lr[nm])]]

EmptyRuns(reg) == [nm \in {reg[i].name : i \in 1..Len(reg)} |-> Undef]

\* a start-up that ignores the file
loadNoRuns(file, reg) == EmptyRuns(reg)

\* index.js:248-265: ENOENT gives {}
loadLastRuns(file, reg) == IF file.exists THEN file.data ELSE EmptyRuns(reg)

\* index.js:267-294: the write either succeeds or fails (EROFS, EACCES); a
\* failure is logged and swallowed
saveLastRuns(file, lr, writeOk) == IF writeOk THEN FileOf(lr) ELSE file

-----------------------------------------------------------------------------
(* The Site Download Milestones alert (src/unnamed/part_004): condition    *)
(* and message with the state file siteDownloadMilestones.json.  Totals    *)
(* are in GiB: a milestone of k GB is k * 1024^3 bytes.                    *)

\* evaluations of the alert in one behaviour
MaxEvals == 3

\* the milestones array (part_004:113-118 and 159-188): id and threshold
SiteMilestones ==
    <<[id |-> "100GB", gib |-> 100], [id |-> "300GB", gib |-> 300],
      [id |-> "500GB", gib |-> 500], [id |-> "1TB", gib |-> 1024]>>

MilestoneIds == {SiteMilestones[k].id : k \in DOMAIN SiteMilestones}

\* the rows of the query: one per test_site tag value; the second row has no
\* test_site (the tag is missing on the points), the third is a site whose
\* name is "Unknown"
SiteRows == <<"Site A", "", "Unknown">>

\* the keys under which the state file lists celebrated milestones
SiteKeys == {"Site A", "Unknown", "The Shadow Realm"}

\* part_004:122, `result.test_site || "Unknown"`
ConditionSiteName(test_site) == IF test_site = "" THEN "Unknown" ELSE test_site

\* part_004:193, `result.test_site || "The Shadow Realm"`
MessageSiteName(test_site) == IF test_site = "" THEN "The Shadow Realm" ELSE test_site

\* part_004:91-148, the condition on rows with totals `totals`, state `st`
SiteCondition(st, totals, t) ==
    IF t - st.lastCelebrationTime < 10 * Minute THEN FALSE
    ELSE \E r \in DOMAIN SiteRows : \E k \in DOMAIN SiteMilestones :
            /\ totals[r] >= SiteMilestones[k].gib
            /\ SiteMilestones[k].id \notin st.celebrated[ConditionSiteName(SiteRows[r])]

\* part_004:192-220, the achievements pushed by message: <<site, id>> pairs
NewAchievements(st, totals) ==
    {<<MessageSiteName(SiteRows[r]), SiteMilestones[k].id>> :
        <<r, k>> \in {p \in (DOMAIN SiteRows) \X (DOMAIN SiteMilestones) :
            /\ totals[p[1]] >= SiteMilestones[p[2]].gib
            /\ SiteMilestones[p[2]].id
                   \notin st.celebrated[MessageSiteName(SiteRows[p[1]])]}}

\* part_004:217, the state after message has marked the achievements
MarkCelebrated(st, ach) ==
    [st EXCEPT !.celebrated =
        [k \in SiteKeys |-> @[k] \cup {id \in MilestoneIds : <<k, id>> \in ach}]]

\* part_004:50-66: the write succeeds or fails; a failure is logged only
saveCelebratedMilestones(file, st, writeOk) == IF writeOk THEN st ELSE file

\* part_004:27-47 with no file: { lastCelebrationTime: 0 }; a site without an
\* entry has celebrated nothing
SiteInit ==
    [file |-> ([lastCelebrationTime |-> 0, celebrated |-> [k \in SiteKeys |-> {}]]),
     totals |-> [r \in DOMAIN SiteRows |-> 0],
     notified |-> [p \in SiteKeys \X MilestoneIds |-> 0],
     evals |-> 0,
     saveFailed |-> FALSE,
     last |-> "none",
     celebratedAt |-> 0,
     sincePrev |-> 0 - 1]

\* One evaluation of the alert on rows with non-decreasing totals: condition,
\* and message when condition returned true (index.js:548-549).  Both load
\* the state file; message saves it.  The notification is what message
\* returns: the achievements, or the "vanished" text when there are none
\* (part_004:225-228).  The evaluation starts `gap` after the previous one:
\* the schedule's 10 minutes, or one minute when an overlapping cron callback
\* finds the alert still due (index.js:487-495).  `celebratedAt` is the time
\* of the latest evaluation that sent achievements, `sincePrev` how long
\* before this evaluation that was (-1 if never).
SiteEvaluation ==
    \E totals \in [DOMAIN SiteRows -> {0, 99, 100, 1024}],
       gap \in {Minute, 10 * Minute}, writeOk \in BOOLEAN :
        /\ site.evals < MaxEvals
        /\ \A r \in DOMAIN SiteRows : totals[r] >= site.totals[r]
        /\ now' = now + gap
        /\ LET fired == SiteCondition(site.file, totals, now')
               ach == NewAchievements(site.file, totals)
               wrote == fired /\ writeOk
           IN  site' = [file |-> IF fired
                                 THEN saveCelebratedMilestones(site.file,
                                          MarkCelebrated(site.file, ach), writeOk)
                                 ELSE site.file,
                        totals |-> totals,
                        notified |-> IF fired
                                     THEN [p \in SiteKeys \X MilestoneIds |->
                                              IF p \in ach THEN Min(site.notified[p] + 1, 2)
                                              ELSE site.notified[p]]
                                     ELSE site.notified,
                        evals |-> site.evals + 1,
                        saveFailed |-> site.saveFailed \/ (fired /\ ~writeOk),
                        last |-> IF ~fired THEN "false"
                                 ELSE IF ach = {} THEN "vanished" ELSE "achievements",
                        celebratedAt |-> IF fired /\ ach # {} THEN now'
                                         ELSE site.celebratedAt,
                        sincePrev |-> IF site.celebratedAt = 0 THEN 0 - 1
                                      ELSE now' - site.celebratedAt]
        /\ UNCHANGED <<alerts, lastRuns, lastRunsFile, ticks, ticksStarted, restarts, env,
                       dueLog, lastCompl, lastDone, lastEval, dailyHist, cum, chaos,
                       config, parsed, hook, tw, speed>>

-----------------------------------------------------------------------------
(* The Cumulative Data Milestone alert                                     *)
(* (src/alerts/dramaticSpeedChangeAlert.js:518-719): condition alone marks *)
(* and saves, with the state file cumulativeMilestones.json; message only  *)
(* formats.  The total is kept in half terabytes, so that                  *)
(* Math.floor(totalTB) is total \div 2.  The alert runs every 5 minutes.   *)

MaxCumEvals == 4
MaxTB == 3

CumMilestones == 1..MaxTB

\* dramaticSpeedChangeAlert.js:545-561 on a missing or unreadable file
NoCumState == [celebratedTB |-> {}, lastCelebrationTime |-> 0]

\* dramaticSpeedChangeAlert.js:545-561: the file's content, or the fresh
\* state when reading or parsing it throws
Cum_loadCelebratedMilestones(file, loadOk) == IF loadOk THEN file ELSE NoCumState

\* dramaticSpeedChangeAlert.js:564-588: the write succeeds or fails; a
\* failure is logged only
Cum_saveCelebratedMilestones(file, st, writeOk) == IF writeOk THEN st ELSE file

\* dramaticSpeedChangeAlert.js:625-626, Math.floor(totalTB)
CurrentMilestone(total) == total \div 2

\* a state object left as loaded
CumNoMark(st, k, t) == st

\* dramaticSpeedChangeAlert.js:665-668: push, sort, lastCelebrationTime = now
CumMark(st, k, t) ==
    [celebratedTB |-> st.celebratedTB \cup {k}, lastCelebrationTime |-> t]

\* a condition that never looks at the celebrated list
CumConditionNoDedup(st, total, t) ==
    /\ CurrentMilestone(total) >= 1
    /\ ~(t - st.lastCelebrationTime < 10 * Minute)

\* dramaticSpeedChangeAlert.js:614-672, the value returned by condition on a
\* result row with total `total`, with the loaded state `st`, at time t
CumCondition(st, total, t) ==
    /\ CurrentMilestone(total) >= 1
    /\ ~(t - st.lastCelebrationTime < 10 * Minute)
    /\ CurrentMilestone(total) \notin st.celebratedTB

CumInit ==
    [file |-> NoCumState,
     total |-> 0,
     reached |-> {},
     count |-> [k \in CumMilestones |-> 0],
     evals |-> 0,
     restarts |-> 0,
     saveFailed |-> FALSE,
     loadFailed |-> FALSE,
     fileLost |-> FALSE,
     sending |-> 0,
     wrote |-> FALSE,
     prevFile |-> NoCumState]

\* One evaluation of the alert on a row whose total never decreases:
\* condition (load, rate limit, dedup, mark, save), then message, then the
\* send is issued (index.js:548-564).  `sending` is the milestone whose
\* webhook send this evaluation started, 0 when condition returned false.
\* the totals the query can show, in half terabytes
CumEvaluation ==
    \E total \in (0..(2 * MaxTB + 1)), loadOk \in BOOLEAN, writeOk \in BOOLEAN :
        /\ cum.evals < MaxCumEvals
        /\ total >= cum.total
        /\ now' = now + 5 * Minute
        /\ LET st == Cum_loadCelebratedMilestones(cum.file, loadOk)
               k == CurrentMilestone(total)
               fired == CumCondition(st, total, now')
           IN  cum' = [cum EXCEPT
                        !.file = IF fired
                                 THEN Cum_saveCelebratedMilestones(cum.file,
                                          CumMark(st, k, now'), writeOk)
                                 ELSE cum.file,
                        !.total = total,
                        !.reached = @ \cup {j \in CumMilestones : total >= 2 * j},
                        !.count = IF fired
                                  THEN [@ EXCEPT ![k] = Min(@ + 1, 2)]
                                  ELSE @,
                        !.evals = @ + 1,
                        !.saveFailed = @ \/ (fired /\ ~writeOk),
                        !.loadFailed = @ \/ ~loadOk,
                        !.sending = IF fired THEN k ELSE 0,
                        !.wrote = fired /\ writeOk,
                        !.prevFile = cum.file]
        /\ UNCHANGED <<alerts, lastRuns, lastRunsFile, ticks, ticksStarted, restarts, env,
                       dueLog, lastCompl, lastDone, lastEval, dailyHist, site, chaos,
                       config, parsed, hook, tw, speed>>

\* The process is restarted between two evaluations.  The alert keeps
\* nothing in memory; the state file (/tmp/cumulativeMilestones.json in
\* production, dramaticSpeedChangeAlert.js:538-541) survives or is gone.
CumProcessRestart ==
    \E keepFile \in BOOLEAN :
        /\ cum.restarts < MaxRestarts
        /\ cum.evals >= 1
        /\ cum' = [cum EXCEPT
                    !.file = IF keepFile THEN @ ELSE NoCumState,
                    !.restarts = @ + 1,
                    !.fileLost = @ \/ (~keepFile /\ cum.file # NoCumState),
                    !.sending = 0,
                    !.wrote = FALSE,
                    !.prevFile = cum.file]
        /\ UNCHANGED <<now, alerts, lastRuns, lastRunsFile, ticks, ticksStarted, restarts, env,
                       dueLog, lastCompl, lastDone, lastEval, dailyHist, site, chaos,
                       config, parsed, hook, tw, speed>>

-----------------------------------------------------------------------------
(* The chaos scheduler (src/services/chaosScheduler.js), for one alert     *)
(* name.  A probability p is kept as the integer p * 100 * maxMultiplierTime, *)
(* which is exact for every elapsed time in whole milliseconds.            *)

MaxChaosChecks == 3

\* chaosScheduler.js:36, baseChance: 0.05, in per cent
BaseChancePct == 5

\* chaosScheduler.js:37, maxMultiplier: 3
MaxMultiplier == 3

\* chaosScheduler.js:38, maxMultiplierTime
MaxMultiplierTime == 3 * Hour

\* a probability given in per cent, on the scale of CurrentChance
Pct(p) == p * MaxMultiplierTime

\* a chance that is not clamped to the maximum multiplier
CurrentChanceUncapped(timeSince) ==
    BaseChancePct * Max(MaxMultiplierTime, Min(timeSince, 4 * MaxMultiplierTime))

\* chaosScheduler.js:140-146: baseChance * Math.max(1, Math.min(timeSince /
\* maxMultiplierTime, maxMultiplier)), times 100 * maxMultiplierTime
CurrentChance(timeSince) ==
    BaseChancePct * Max(MaxMultiplierTime,
                        Min(timeSince, MaxMultiplier * MaxMultiplierTime))

\* what chaosSchedulerState.json can hold when the service is constructed:
\* no file, text that is not JSON, a JSON object without lastExecutions, or
\* { lastExecutions: {...} } with the entry of the alert (0: no entry)
ChaosFile(shape, lastExecution) == [shape |-> shape, lastExecution |-> lastExecution]

\* chaosScheduler.js:48-62, loadState: the parsed file whatever its shape,
\* or { lastExecutions: {} } when reading or parsing throws
loadState(file) ==
    CASE file.shape \in {"missing", "unparsable"} ->
            [hasLastExecutions |-> TRUE, lastExecution |-> 0]
      [] file.shape = "noLastExecutions" ->
            [hasLastExecutions |-> FALSE, lastExecution |-> 0]
      [] file.shape = "valid" ->
            [hasLastExecutions |-> TRUE, lastExecution |-> file.lastExecution]

\* chaosScheduler.js:68-86, saveState: the write succeeds or fails; a failure
\* is logged only
saveState(file, state, writeOk) ==
    IF writeOk THEN ChaosFile("valid", state.lastExecution) ELSE file

\* chaosScheduler.js:162-163, this.state.lastExecutions[alertName] = Date.now()
recordChaosExecution(state, t) == [state EXCEPT !.lastExecution = t]

\* a wrapper that records the execution as soon as the draw succeeds
RecordOnDraw(shouldRun, cond) == shouldRun

\* chaosScheduler.js:197-208: the execution is recorded when the draw
\* succeeded and the original condition returned true
RecordsExecution(shouldRun, cond) == shouldRun /\ cond

\* chaosScheduler.js:40, the service is constructed on the state file `file`
ChaosInit(file) ==
    [file |-> file,
     state |-> loadState(file),
     calls |-> 0,
     checks |-> 0,
     elapsed |-> 0,
     chance |-> 0,
     prevElapsed |-> 0,
     prevChance |-> 0,
     shouldRun |-> FALSE,
     cond |-> FALSE,
     raised |-> FALSE,
     prevState |-> loadState(file),
     prevFile |-> file]

\* chaosScheduler.js:194-211, one call of the wrapped condition:
\* shouldChaosAlertRun (135-156) with Math.random() = random per cent, then
\* the original condition returning `cond`, then recordChaosExecution
\* (162-167) with its saveState.  Reading lastExecutions[alertName] of a state
\* without lastExecutions raises a TypeError (137), which leaves the call.
\* `checks` counts the calls that computed a chance.
\* the times between two chaos checks
\* the values of Math.random(), in per cent
ChaosCheck ==
    \E gap \in {0, 90 * Minute, 3 * Hour, 6 * Hour}, random \in {0, 7, 99},
       cond \in BOOLEAN, writeOk \in BOOLEAN :
        /\ chaos.calls < MaxChaosChecks
        /\ now' = now + gap
        /\ IF ~chaos.state.hasLastExecutions
           THEN chaos' = [chaos EXCEPT !.calls = @ + 1,
                                       !.raised = TRUE,
                                       !.shouldRun = FALSE,
                                       !.cond = FALSE,
                                       !.prevState = chaos.state,
                                       !.prevFile = chaos.file]
           ELSE LET timeSinceLastExecution == now' - chaos.state.lastExecution
                    currentChance == CurrentChance(timeSinceLastExecution)
                    shouldRun == Pct(random) < currentChance
                    records == RecordsExecution(shouldRun, cond)
                    state == IF records THEN recordChaosExecution(chaos.state, now')
                             ELSE chaos.state
                IN  chaos' = [file |-> IF records THEN saveState(chaos.file, state, writeOk)
                                       ELSE chaos.file,
                              state |-> state,
                              calls |-> chaos.calls + 1,
                              checks |-> chaos.checks + 1,
                              elapsed |-> timeSinceLastExecution,
                              chance |-> currentChance,
                              prevElapsed |-> chaos.elapsed,
                              prevChance |-> chaos.chance,
                              shouldRun |-> shouldRun,
                              cond |-> shouldRun /\ cond,
                              raised |-> FALSE,
                              prevState |-> chaos.state,
                              prevFile |-> chaos.file]
        /\ UNCHANGED <<alerts, lastRuns, lastRunsFile, ticks, ticksStarted, restarts, env,
                       dueLog, lastCompl, lastDone, lastEval, dailyHist, site, cum, config,
                       parsed, hook, tw, speed>>

-----------------------------------------------------------------------------
(* config.json and the hour gate of daily alerts (index.js:6, 196-215,     *)
(* 357-369).  A timezone name is a string of one token.                    *)

MaxHourChecks == 24

TZ_NewYork == <<"America/New_York">>
TZ_London == <<"Europe/London">>
TZ_Tokyo == <<"Asia/Tokyo">>

\* the offset of a timezone from UTC in January, ms
TzOffsetOf(timezone) ==
    CASE timezone = TZ_NewYork -> 0 - 5 * Hour
      [] timezone = TZ_London -> 0
      [] timezone = TZ_Tokyo -> 9 * Hour

\* index.js:345-355 at time t: parseInt(toLocaleString("en-US", {timeZone,
\* hour: "numeric", hour12: false})) === targetHour
isCurrentlyDailyAlertHourIn(timezone, targetHour, t) ==
    ((t + TzOffsetOf(timezone)) \div Hour) % 24 = targetHour

\* index.js:196-215: finalConfig is built from discord, influxdb and
\* cronSchedule only; reading any other property of it gives undefined
finalConfig(file) == [timezone |-> Undef, dailyAlertHour |-> Undef]

\* index.js:363, config.timezone || "America/New_York"
TimezoneOf(c) == OrElse(c.timezone, Str(TZ_NewYork)).s

\* index.js:364, config.dailyAlertHour || 9
DailyAlertHourOf(c) == OrElse(c.dailyAlertHour, Num(DefaultDailyAlertHour)).n

\* index.js:495 with 357-380 for a daily alert that has not run yet: the
\* hour gate decides
shouldRunDaily(file, t) ==
    LET c == finalConfig(file)
    IN  isCurrentlyDailyAlertHourIn(TimezoneOf(c), DailyAlertHourOf(c), t)

ConfigInit(file) == [file |-> file, checks |-> 0, due |-> FALSE]

\* the cron callback checks a daily alert, one hour after the previous check
HourCheck ==
    /\ config.checks < MaxHourChecks
    /\ now' = now + Hour
    /\ config' = [config EXCEPT !.checks = @ + 1,
                                !.due = shouldRunDaily(config.file, now')]
    /\ UNCHANGED <<alerts, lastRuns, lastRunsFile, ticks, ticksStarted, restarts, env,
                   dueLog, lastCompl, lastDone, lastEval, dailyHist, site, cum, chaos,
                   parsed, hook, tw, speed>>

-----------------------------------------------------------------------------
(* parseSchedule (index.js:297-330) applied to arbitrary schedule strings. *)

MaxScheduleLen == 3

ParsedInit(cs) ==
    [schedule |-> Str(cs), done |-> FALSE, result |-> Undef, chaos |-> 0,
     chaosOfSuffix |-> 0]

\* a caller passes the string to parseSchedule (index.js:359, 592); the
\* chaos scheduler passes the string, and "chaos:" followed by the string,
\* to parseChaosSchedule (chaosScheduler.js:184)
ParseSchedule ==
    /\ ~parsed.done
    /\ parsed' = [parsed EXCEPT
                    !.done = TRUE,
                    !.result = parseSchedule(parsed.schedule),
                    !.chaos = parseChaosSchedule(parsed.schedule.s),
                    !.chaosOfSuffix =
                        parseChaosSchedule(S_chaosColon \o parsed.schedule.s)]
    /\ UNCHANGED <<now, alerts, lastRuns, lastRunsFile, ticks, ticksStarted, restarts,
                   env, dueLog, lastCompl, lastDone, lastEval, dailyHist, site, cum,
                   chaos, config, hook, tw, speed>>

-----------------------------------------------------------------------------
(* The console.error and console.warn hooks (index.js:8-86).  `sent`       *)
(* holds the times of the latest error notifications handed to             *)
(* sendErrorToDiscord, oldest first, at most MAX_ERRORS_PER_MINUTE + 1.    *)

MaxHookCalls == 7

\* index.js:18
ERROR_RATE_LIMIT_MS == 60000

\* index.js:19
MAX_ERRORS_PER_MINUTE == 5

\* a limiter that starts a new count on every call
ResetsOnEveryCall(t, lastErrorTime) == TRUE

\* index.js:39, now - lastErrorTime > ERROR_RATE_LIMIT_MS
ResetsErrorCount(t, lastErrorTime) == t - lastErrorTime > ERROR_RATE_LIMIT_MS

\* a failure handler that reports through the hooked console.error
HookedReporter(type) == "console.error"

\* index.js:50-56, 79-84 and 186-192: a delivery that failed is reported with
\* originalConsoleError, the console.error saved before the hook was installed
\* (index.js:12), whatever the type of the notification
FailureReporter(type) == "originalConsoleError"

\* index.js:16-17.  `warnStart` and `warnRun` count the warning notifications
\* of the current 60-second window: the time of its first warning and the
\* number of warnings since.  `attempts`, `failed` and `reported` describe the
\* latest call: the deliveries it started, whether the delivery failed, and
\* the console method the failure was reported with.
HookInit ==
    [lastErrorTime |-> 0,
     errorCount |-> 0,
     calls |-> 0,
     sent |-> <<>>,
     notices |-> 0,
     lastCall |-> "none",
     warnStart |-> 0,
     warnRun |-> 0,
     attempts |-> 0,
     failed |-> FALSE,
     reported |-> "none"]

\* the latest k + 1 entries of a sequence
LatestOf(seq, k) == IF Len(seq) > k THEN SubSeq(seq, Len(seq) - k, Len(seq)) ELSE seq

\* index.js:137-193, one call of sendErrorToDiscord(message, type) from a
\* hook whose counter stands at errorCount: one delivery on the alert
\* webhook; when it fails the catch block reports the failure, and a report
\* through the hooked console.error ("... Failed to send ..." matches the
\* error pattern "Failed to", index.js:93) would start a second delivery as
\* long as the counter is below the limit
sendErrorToDiscord(h, type, delivered, errorCount) ==
    [h EXCEPT
       !.failed = ~delivered,
       !.reported = IF delivered THEN "none" ELSE FailureReporter(type),
       !.attempts = IF ~delivered /\ FailureReporter(type) = "console.error"
                       /\ errorCount < MAX_ERRORS_PER_MINUTE
                    THEN 2 ELSE 1]

\* a call that starts no delivery
NoDelivery(h) == [h EXCEPT !.failed = FALSE, !.reported = "none", !.attempts = 0]

\* index.js:29-67, one call of console.error with a message that matches an
\* error pattern (shouldSendErrorToDiscord, 88-112) or does not; the alert
\* webhook client exists from start-up on (index.js:221-223)
ConsoleErrorCalled ==
    \E gap \in {0, ERROR_RATE_LIMIT_MS, ERROR_RATE_LIMIT_MS + 1},
       matches \in BOOLEAN, delivered \in BOOLEAN :
        /\ hook.calls < MaxHookCalls
        /\ now' = now + gap
        /\ LET errorCount == IF ResetsErrorCount(now', hook.lastErrorTime) THEN 0
                             ELSE hook.errorCount
           IN  IF matches /\ errorCount < MAX_ERRORS_PER_MINUTE
               THEN hook' = sendErrorToDiscord(
                              [hook EXCEPT
                                 !.errorCount = errorCount + 1,
                                 !.lastErrorTime = now',
                                 !.calls = @ + 1,
                                 !.sent = LatestOf(Append(@, now'), MAX_ERRORS_PER_MINUTE),
                                 !.lastCall = "sent"],
                              "ERROR", delivered, errorCount + 1)
               ELSE IF errorCount = MAX_ERRORS_PER_MINUTE
               THEN hook' = sendErrorToDiscord(
                              [hook EXCEPT
                                 !.errorCount = errorCount + 1,
                                 !.calls = @ + 1,
                                 !.notices = @ + 1,
                                 !.lastCall = "notice"],
                              "RATE_LIMIT", delivered, errorCount + 1)
               ELSE /\ delivered
                    /\ hook' = NoDelivery([hook EXCEPT
                                             !.errorCount = errorCount,
                                             !.calls = @ + 1,
                                             !.lastCall = "dropped"])
        /\ UNCHANGED <<alerts, lastRuns, lastRunsFile, ticks, ticksStarted, restarts,
                       env, dueLog, lastCompl, lastDone, lastEval, dailyHist, site, cum,
                       chaos, config, parsed, tw, speed>>

\* index.js:69-86, one call of console.warn with a message that matches a
\* warning pattern (shouldSendWarningToDiscord, 115-133) or does not: the
\* warning is forwarded while errorCount is below the limit, and the call
\* changes neither errorCount nor lastErrorTime
ConsoleWarnCalled ==
    \E gap \in {0, ERROR_RATE_LIMIT_MS + 1}, matches \in BOOLEAN, delivered \in BOOLEAN :
        /\ hook.calls < MaxHookCalls
        /\ now' = now + gap
        /\ IF matches /\ hook.errorCount < MAX_ERRORS_PER_MINUTE
           THEN hook' = sendErrorToDiscord(
                          [hook EXCEPT
                             !.calls = @ + 1,
                             !.lastCall = "warned",
                             !.warnStart =
                                 IF hook.warnRun = 0
                                    \/ now' - hook.warnStart > ERROR_RATE_LIMIT_MS
                                 THEN now' ELSE @,
                             !.warnRun =
                                 IF hook.warnRun = 0
                                    \/ now' - hook.warnStart > ERROR_RATE_LIMIT_MS
                                 THEN 1 ELSE @ + 1],
                          "WARNING", delivered, hook.errorCount)
           ELSE /\ delivered
                /\ hook' = NoDelivery([hook EXCEPT !.calls = @ + 1,
                                                   !.lastCall = "dropped"])
        /\ UNCHANGED <<alerts, lastRuns, lastRunsFile, ticks, ticksStarted, restarts,
                       env, dueLog, lastCompl, lastDone, lastEval, dailyHist, site, cum,
                       chaos, config, parsed, tw, speed>>

-----------------------------------------------------------------------------
(* The Collective Time Wasted alert (src/unnamed/part_006): condition and  *)
(* message with the state file timeWastedMilestones.json.  Totals are in   *)
(* hours.                                                                  *)

\* evaluations of the alert in one behaviour
MaxTwEvals == 3

\* part_006:106-115 and 178-235, the hours of the first three milestones of
\* the list ("8h", "16h", "24h")
TwMilestones == <<8, 16, 24>>

\* part_006:133-151, milestones.some(...): the first milestone of the list
\* that is reached and not in celebratedHours, 0 if there is none
TwNewMilestone(celebratedHours, totalHours) ==
    LET new == {k \in DOMAIN TwMilestones :
                   totalHours >= TwMilestones[k] /\ k \notin celebratedHours}
    IN  IF new = {} THEN 0 ELSE CHOOSE k \in new : \A j \in new : k <= j

\* part_006:237-243, currentMilestone: the last milestone of the list that
\* is reached, 0 (null) if there is none
TwCurrentMilestone(totalHours) ==
    LET reached == {k \in DOMAIN TwMilestones : totalHours >= TwMilestones[k]}
    IN  IF reached = {} THEN 0 ELSE CHOOSE k \in reached : \A j \in reached : k >= j

\* no state file; nothing evaluated yet.  `marked` is the milestone the last
\* condition marked, `named` the one its message named, `announced` counts
\* the notifications that named each milestone
TwInit ==
    [celebratedHours |-> {}, lastCelebrationTime |-> 0, evals |-> 0, fired |-> FALSE,
     marked |-> 0, named |-> 0, announced |-> [k \in DOMAIN TwMilestones |-> 0],
     saveFailed |-> FALSE]

\* One evaluation of the alert by the loop: condition (part_006:92-152), and
\* message (159-243) when the condition returned true.  The state is read
\* from the file on every evaluation; the write succeeds or fails (47-64).
TimeWastedEvaluation ==
    \E totalHours \in {0, 8, 20, 30}, gap \in {Minute, 15 * Minute}, writeOk \in BOOLEAN :
        /\ tw.evals < MaxTwEvals
        /\ now' = now + gap
        /\ LET rateLimited == now' - tw.lastCelebrationTime < 15 * Minute
               new == IF rateLimited THEN 0
                      ELSE TwNewMilestone(tw.celebratedHours, totalHours)
               fired == new # 0
               named == IF fired THEN TwCurrentMilestone(totalHours) ELSE 0
           IN  tw' = [tw EXCEPT
                        !.evals = @ + 1,
                        !.fired = fired,
                        !.marked = new,
                        !.named = named,
                        !.celebratedHours =
                            IF fired /\ writeOk THEN @ \cup {new} ELSE @,
                        !.lastCelebrationTime =
                            IF fired /\ writeOk THEN now' ELSE @,
                        !.announced =
                            IF named # 0 THEN [@ EXCEPT ![named] = @ + 1] ELSE @,
                        !.saveFailed = @ \/ (fired /\ ~writeOk)]
        /\ UNCHANGED <<alerts, lastRuns, lastRunsFile, ticks, ticksStarted, restarts, env,
                       dueLog, lastCompl, lastDone, lastEval, dailyHist, site, cum, chaos,
                       config, parsed, hook, speed>>

-----------------------------------------------------------------------------
(* The Dramatic Speed Change alert (src/alerts/dramaticSpeedChangeAlert.js):*)
(* condition with the state file dramaticSpeedChangeRateLimit.json, on the *)
(* two latest measurements of one site.  Speeds are in units of 10 Mbps,   *)
(* so that minThreshold (50 Mbps) is 5.                                    *)

\* evaluations of the alert in one behaviour
MaxSpeedEvals == 3

\* percentChange > pct, with percentChange =
\* Math.abs((currentSpeed - previousSpeed) / previousSpeed) * 100 (line 128)
PercentChangeOver(previousSpeed, currentSpeed, pct) ==
    (IF currentSpeed >= previousSpeed THEN currentSpeed - previousSpeed
     ELSE previousSpeed - currentSpeed) * 100 > pct * previousSpeed

\* dramaticSpeedChangeAlert.js:157-158, maxPercentChange >= 80
isSuperDramatic(previousSpeed, currentSpeed) ==
    \/ PercentChangeOver(previousSpeed, currentSpeed, 80)
    \/ (IF currentSpeed >= previousSpeed THEN currentSpeed - previousSpeed
        ELSE previousSpeed - currentSpeed) * 100 = 80 * previousSpeed

\* dramaticSpeedChangeAlert.js:91-170, what condition returns at time t
DramaticCondition(previousSpeed, currentSpeed, lastAlertTime, t) ==
    /\ currentSpeed >= 5 /\ previousSpeed >= 5
    /\ PercentChangeOver(previousSpeed, currentSpeed, 40)
    /\ ~(t - lastAlertTime < Hour /\ ~isSuperDramatic(previousSpeed, currentSpeed))

\* no state file; nothing evaluated yet.  `pair` is the two measurements
\* last seen, `firedOnPair` whether the alert has fired on them, `unchanged`
\* whether the last evaluation saw the results of the one before, and
\* `prevFiredAt` the time of the firing before the last evaluation
SpeedInit ==
    [lastAlertTime |-> 0, evals |-> 0, fired |-> FALSE, pair |-> <<0, 0>>,
     firedOnPair |-> FALSE, refired |-> FALSE, prevFiredAt |-> 0, firedAt |-> 0,
     saveFailed |-> FALSE]

\* One evaluation of the alert by the loop (schedule "2m"): the query shows
\* the results of the evaluation before (possible only within the query's
\* one-hour window) or new measurements; the write of the state succeeds or
\* fails (dramaticSpeedChangeAlert.js:45-64).
SpeedEvaluation ==
    \E pair \in {<<10, 4>>, <<10, 13>>, <<10, 15>>, <<10, 18>>, <<10, 19>>},
       unchanged \in BOOLEAN, gap \in {2 * Minute, Hour}, writeOk \in BOOLEAN :
        /\ speed.evals < MaxSpeedEvals
        /\ unchanged => (speed.evals > 0 /\ pair = speed.pair /\ gap < Hour)
        /\ now' = now + gap
        /\ LET fired == DramaticCondition(pair[1], pair[2], speed.lastAlertTime, now')
           IN  speed' = [speed EXCEPT
                           !.evals = @ + 1,
                           !.pair = pair,
                           !.fired = fired,
                           !.refired = fired /\ unchanged /\ speed.firedOnPair,
                           !.firedOnPair = fired \/ (unchanged /\ @),
                           !.prevFiredAt = speed.firedAt,
                           !.firedAt = IF fired THEN now' ELSE @,
                           !.lastAlertTime = IF fired /\ writeOk THEN now' ELSE @,
                           !.saveFailed = @ \/ (fired /\ ~writeOk)]
        /\ UNCHANGED <<alerts, lastRuns, lastRunsFile, ticks, ticksStarted, restarts, env,
                       dueLog, lastCompl, lastDone, lastEval, dailyHist, site, cum, chaos,
                       config, parsed, hook, tw>>

-----------------------------------------------------------------------------
(* The orchestration loop: the cron callback of src/index.js:487-642.      *)
(* JavaScript runs a callback without interruption from one await to the   *)
(* next, so one step of the model is one such stretch: a callback starts   *)
(* or resumes from an await with the outcome of the awaited call, and runs *)
(* to its next await or to its end.  node-cron starts the callback every   *)
(* minute whether or not an earlier callback has returned.                 *)

N == Len(alerts)

\* the callbacks in flight
Slots == 1..Len(ticks)

\* callback s suspends again with locals rec; a callback that has just been
\* started is the youngest
SetTick(s, rec) == IF s > Len(ticks) THEN Append(ticks, rec) ELSE [ticks EXCEPT ![s] = rec]

\* callback s returns or rejects
DropTick(s) ==
    IF s > Len(ticks) THEN ticks
    ELSE SubSeq(ticks, 1, s - 1) \o SubSeq(ticks, s + 1, Len(ticks))

NoCompl ==
    [how |-> "none", i |-> 0, at |-> 0, notice |-> FALSE, condArg |-> "none",
     excs |-> {}, next |-> 0]

NoDone == [how |-> "none", checked |-> 0, need |-> FALSE, wrote |-> FALSE]

\* first alert at or after j that is not skipped by the due-check, N + 1 if none
RECURSIVE FirstStop(_, _, _)
FirstStop(j, lr, t) ==
    IF j > N THEN j
    ELSE IF shouldRunAlert(alerts[j], lr, t) = "skip" THEN FirstStop(j + 1, lr, t)
    ELSE j

\* one call of shouldRunAlert: the alert, the clock, the marker it read, its result
DueRec(i, lr, t) ==
    [i |-> i, at |-> t, seen |-> lr[alerts[i].name],
     due |-> shouldRunAlert(alerts[i], lr, t), prev |-> lastEval[i]]

\* a run recorded for a daily alert leaves a date as marker
RecordRun(hist, i, lr) ==
    IF lr[alerts[i].name].k = "str"
    THEN hist \cup {[i |-> i, date |-> lr[alerts[i].name], proc |-> restarts,
                     saved |-> FALSE]}
    ELSE hist

\* a successful saveLastRuns puts the current markers in the file
RecordSave(hist, lr) ==
    {IF h.date = lr[alerts[h.i].name] THEN [h EXCEPT !.saved = TRUE] ELSE h : h \in hist}

\* Callback `s` goes on with the for loop at alert j (index.js:492-512), with
\* `rec` its locals and `lr` the RunState: it skips the alerts that are not due;
\* at the first due alert it issues the query and suspends (index.js:519); when
\* shouldRunAlert throws it enters the catch block and suspends at the critical
\* error notification (index.js:610); after the last alert it saves the RunState
\* if needToSaveLastRuns (index.js:639-641), the write succeeding or failing,
\* and returns.
Continue(s, rec, lr, hist, j, t) ==
    LET stop == FirstStop(j, lr, t)
        rec2 == [rec EXCEPT !.results = "none", !.chaos = "none", !.notice = FALSE,
                            !.condArg = "none", !.excs = {}, !.webhook = "none"]
    IN  /\ dueLog' = {DueRec(i, lr, t) : i \in j..Min(stop, N)}
        /\ lastRuns' = lr
        /\ IF stop > N THEN
               /\ ticks' = DropTick(s)
               /\ \E writeOk \in (IF rec.need THEN BOOLEAN ELSE {FALSE}) :
                      /\ lastRunsFile' = IF rec.need
                                         THEN saveLastRuns(lastRunsFile, lr, writeOk)
                                         ELSE lastRunsFile
                      /\ dailyHist' = IF writeOk THEN RecordSave(hist, lr) ELSE hist
                      /\ lastDone' = [how |-> "returned", checked |-> N,
                                      need |-> rec.need, wrote |-> writeOk]
               /\ lastEval' = lastEval
           ELSE IF shouldRunAlert(alerts[stop], lr, t) = "due" THEN
               /\ ticks' = SetTick(s, [rec2 EXCEPT !.pc = "query", !.idx = stop])
               /\ lastEval' = [lastEval EXCEPT ![stop] = t]
               /\ lastRunsFile' = lastRunsFile
               /\ dailyHist' = hist
               /\ lastDone' = NoDone
           ELSE
               /\ ticks' = SetTick(s, [rec2 EXCEPT !.pc = "critical", !.idx = stop,
                                                  !.excs = {"schedule"},
                                                  !.webhook = alertWebhookClient])
               /\ lastEval' = lastEval
               /\ lastRunsFile' = lastRunsFile
               /\ dailyHist' = hist
               /\ lastDone' = NoDone

\* The evaluation of alert rec.idx ends without exception (index.js:591-601):
\* the RunState entry is updated and the loop goes on.
Complete(s, rec, t) ==
    LET a == alerts[rec.idx]
        lr == UpdateLastRun(lastRuns, a, t)
    IN  /\ lastCompl' = [how |-> "ok", i |-> rec.idx, at |-> t, notice |-> rec.notice,
                         condArg |-> rec.condArg, excs |-> rec.excs,
                         next |-> FirstStop(rec.idx + 1, lr, t)]
        /\ Continue(s, [rec EXCEPT !.need = TRUE], lr, RecordRun(dailyHist, rec.idx, lr),
                    rec.idx + 1, t)

\* the callback stays inside the evaluation of its alert, now as rec
Stay(s, rec) ==
    /\ ticks' = SetTick(s, rec)
    /\ dueLog' = {}
    /\ lastCompl' = NoCompl
    /\ lastDone' = NoDone
    /\ UNCHANGED <<lastRuns, lastRunsFile, lastEval, dailyHist>>

\* An exception of stage `stage` reaches the per-alert catch (index.js:602-622):
\* it is logged and the critical error notification is awaited.
Caught(s, rec, stage) ==
    Stay(s, [rec EXCEPT !.pc = "critical", !.excs = @ \cup {stage},
                        !.webhook = alertWebhookClient])

\* index.js:546-564: condition, then message, then the send is issued.  A
\* condition built by createChaosCondition (chaosScheduler.js:194-211) first
\* draws, and evaluates the module's condition only when the draw succeeds.
Evaluate(s, rec, draw, co, mo, t) ==
    LET a == alerts[rec.idx]
        rec2 == [rec EXCEPT !.condArg = rec.results,
                            !.chaos = IF a.wrapped
                                      THEN (IF draw THEN "fire" ELSE "skip")
                                      ELSE "none"]
    IN  IF a.wrapped /\ ~draw THEN Complete(s, rec2, t)
        ELSE IF co = "throw" THEN Caught(s, rec2, "condition")
        ELSE IF co = "false" THEN Complete(s, rec2, t)
        ELSE IF mo = "throw" THEN Caught(s, rec2, "message")
        ELSE Stay(s, [rec2 EXCEPT !.pc = "send", !.webhook = getAlertWebhookClient(env)])

\* node-cron fires at the next minute and starts a callback (index.js:487-490)
\* with fresh locals: the alert it is at, what the query gave, whether
\* needToSaveLastRuns is set, and what happened so far in this evaluation
CronTick ==
    /\ ticksStarted < MaxTicks
    /\ Len(ticks) < MaxInFlight
    /\ now' = now + Minute
    /\ ticksStarted' = ticksStarted + 1
    /\ lastCompl' = NoCompl
    /\ Continue(Len(ticks) + 1,
                [pc |-> "idle", idx |-> 0, results |-> "none", need |-> FALSE,
                 chaos |-> "none", notice |-> FALSE, condArg |-> "none", excs |-> {},
                 webhook |-> "none"],
                lastRuns, dailyHist, 1, now + Minute)
    /\ UNCHANGED <<alerts, restarts, env, site, cum, chaos, config, parsed, hook, tw, speed>>

\* `await influxDBService.query(alert.query)` resolves (index.js:519-520) with
\* rows or with an empty result
QueryReturns ==
    \E s \in Slots, out \in {"rows", "empty"}, draw \in BOOLEAN,
       co \in {"true", "false", "throw"}, mo \in {"ok", "throw"} :
        /\ ticks[s].pc = "query"
        /\ draw \in Draws(alerts[ticks[s].idx])
        /\ co \in Condition(alerts[ticks[s].idx], out, env)
        /\ mo \in MessageAfter(alerts[ticks[s].idx], out, co)
        /\ Evaluate(s, [ticks[s] EXCEPT !.results = out], draw, co, mo, now)
        /\ UNCHANGED <<now, alerts, ticksStarted, restarts, env, site, cum, chaos, config,
                       parsed, hook, tw, speed>>

\* the query rejects (index.js:521-544): the error is logged, results = null,
\* and the database error notice is sent on the alert webhook and awaited
QueryFails ==
    \E s \in Slots :
        /\ ticks[s].pc = "query"
        /\ Stay(s, [ticks[s] EXCEPT !.pc = "dbNotice", !.results = "null",
                                    !.notice = TRUE, !.excs = @ \cup {"query"},
                                    !.webhook = alertWebhookClient])
        /\ UNCHANGED <<now, alerts, ticksStarted, restarts, env, site, cum, chaos, config,
                       parsed, hook, tw, speed>>

\* the database error notice settles; its failure is logged and swallowed
\* (index.js:530-543); the condition is then called with results = null
DbNoticeReturns ==
    \E s \in Slots, draw \in BOOLEAN, co \in {"true", "false", "throw"},
       mo \in {"ok", "throw"} :
        /\ ticks[s].pc = "dbNotice"
        /\ draw \in Draws(alerts[ticks[s].idx])
        /\ co \in Condition(alerts[ticks[s].idx], "null", env)
        /\ mo \in MessageAfter(alerts[ticks[s].idx], "null", co)
        /\ Evaluate(s, ticks[s], draw, co, mo, now)
        /\ UNCHANGED <<now, alerts, ticksStarted, restarts, env, site, cum, chaos, config,
                       parsed, hook, tw, speed>>

\* `await targetWebhook.send(...)` settles (index.js:554-586); on failure the
\* error is logged and the system error notification is awaited
SendReturns ==
    \E s \in Slots, sent \in BOOLEAN :
        /\ ticks[s].pc = "send"
        /\ IF sent
           THEN Complete(s, ticks[s], now)
           ELSE Stay(s, [ticks[s] EXCEPT !.pc = "fallback", !.excs = @ \cup {"send"},
                                         !.webhook = alertWebhookClient])
        /\ UNCHANGED <<now, alerts, ticksStarted, restarts, env, site, cum, chaos, config,
                       parsed, hook, tw, speed>>

\* the system error notification settles; its failure is swallowed
FallbackReturns ==
    \E s \in Slots :
        /\ ticks[s].pc = "fallback"
        /\ Complete(s, ticks[s], now)
        /\ UNCHANGED <<now, alerts, ticksStarted, restarts, env, site, cum, chaos, config,
                       parsed, hook, tw, speed>>

\* a catch block that rethrows: the callback rejects at the first caught exception
CatchRethrow(s, rec, t) ==
    /\ ticks' = DropTick(s)
    /\ lastDone' = [how |-> "rejected", checked |-> rec.idx, need |-> rec.need,
                    wrote |-> FALSE]
    /\ lastCompl' = [how |-> "crashed", i |-> rec.idx, at |-> t, notice |-> rec.notice,
                     condArg |-> rec.condArg, excs |-> rec.excs, next |-> 0]
    /\ dueLog' = {}
    /\ UNCHANGED <<lastRuns, lastRunsFile, lastEval, dailyHist>>

\* The rest of the catch block after the critical error notification
\* (index.js:624-634): parseSchedule(alert.schedule), then the RunState update.
\* An exception of parseSchedule is raised inside the catch block: it leaves
\* the for loop and the callback, whose promise rejects.
CatchRest(s, rec, t) ==
    IF parseSchedule(alerts[rec.idx].schedule) = Throws
    THEN /\ ticks' = DropTick(s)
         /\ lastDone' = [how |-> "rejected", checked |-> rec.idx, need |-> rec.need,
                         wrote |-> FALSE]
         /\ lastCompl' = [how |-> "crashed", i |-> rec.idx, at |-> t,
                          notice |-> rec.notice, condArg |-> rec.condArg,
                          excs |-> rec.excs, next |-> 0]
         /\ dueLog' = {}
         /\ UNCHANGED <<lastRuns, lastRunsFile, lastEval, dailyHist>>
    ELSE LET lr == CatchUpdateLastRun(lastRuns, alerts[rec.idx], t) IN
         /\ lastCompl' = [how |-> "caught", i |-> rec.idx, at |-> t,
                          notice |-> rec.notice, condArg |-> rec.condArg,
                          excs |-> rec.excs, next |-> FirstStop(rec.idx + 1, lr, t)]
         /\ Continue(s, [rec EXCEPT !.need = TRUE], lr,
                     RecordRun(dailyHist, rec.idx, lr), rec.idx + 1, t)

\* the critical error notification settles; its failure is swallowed
\* (index.js:609-622)
CriticalReturns ==
    \E s \in Slots :
        /\ ticks[s].pc = "critical"
        /\ CatchRest(s, ticks[s], now)
        /\ UNCHANGED <<now, alerts, ticksStarted, restarts, env, site, cum, chaos, config,
                       parsed, hook, tw, speed>>

\* The process stops (callbacks in flight are lost with it), stays down for d
\* and starts again: the RunState is loaded from the file (index.js:483).
\* how long the process may stay down across a restart
ProcessRestart ==
    \E d \in {Minute, Day - Minute} :
        /\ restarts < MaxRestarts
        /\ restarts' = restarts + 1
        /\ now' = now + d
        /\ ticks' = <<>>
        /\ lastRuns' = loadLastRuns(lastRunsFile, alerts)
        /\ dueLog' = {}
        /\ lastCompl' = NoCompl
        /\ lastDone' = NoDone
        /\ UNCHANGED <<alerts, lastRunsFile, ticksStarted, env, lastEval, dailyHist, site,
                       cum, chaos, config, parsed, hook, tw, speed>>

LoopInit(reg) ==
    /\ now = StartTime
    /\ alerts = reg
    /\ lastRunsFile = NoFile
    /\ lastRuns = loadLastRuns(NoFile, reg)
    /\ ticks = <<>>
    /\ ticksStarted = 0
    /\ restarts = 0
    /\ env = ProductionEnv
    /\ dueLog = {}
    /\ lastCompl = NoCompl
    /\ lastDone = NoDone
    /\ lastEval = [i \in 1..Len(reg) |-> 0]
    /\ dailyHist = {}

\* the milestone alerts, the chaos scheduler and config.json at start-up:
\* no state file, no recorded chaos execution, neither setting in config.json
RestInit ==
    /\ site = SiteInit
    /\ cum = CumInit
    /\ chaos = ChaosInit(ChaosFile("missing", 0))
    /\ config = ConfigInit([timezone |-> Undef, dailyAlertHour |-> Undef])
    /\ parsed = ParsedInit(S_daily)
    /\ hook = HookInit
    /\ tw = TwInit
    /\ speed = SpeedInit

Init ==
    /\ LoopInit(Registry)
    /\ RestInit

Next ==
    \/ CronTick
    \/ QueryReturns
    \/ QueryFails
    \/ DbNoticeReturns
    \/ SendReturns
    \/ FallbackReturns
    \/ CriticalReturns
    \/ ProcessRestart

Spec == Init /\ [][Next]_vars

\* the orchestration loop on a registry with an alert module whose schedule
\* field is a number instead of a string; the loader (index.js:400) checks
\* name, query, condition and message only
InitAnySchedule ==
    /\ LoopInit(<<ChaosExampleAlert,
                  Alert("Numeric Schedule Alert", Num(300000), "hasData"),
                  SentinelAlert>>)
    /\ RestInit

SpecAnySchedule == InitAnySchedule /\ [][Next]_vars

\* the orchestration loop in every setting of the test-mode variables
\* no test-mode variable set, or exactly one of them
InitRouting ==
    /\ now = StartTime
    /\ alerts = <<SentinelAlert>>
    /\ lastRunsFile = NoFile
    /\ lastRuns = loadLastRuns(NoFile, <<SentinelAlert>>)
    /\ ticks = <<>>
    /\ ticksStarted = 0
    /\ restarts = 0
    /\ env \in {ProductionEnv} \cup
                {[ProductionEnv EXCEPT ![f] = TRUE] :
                    f \in {"TEST_MODE", "TEST_WEBHOOK", "TEST_ERROR_LOGGING",
                           "NODE_ENV_test"}}
    /\ dueLog = {}
    /\ lastCompl = NoCompl
    /\ lastDone = NoDone
    /\ lastEval = [i \in 1..1 |-> 0]
    /\ dailyHist = {}
    /\ RestInit

SpecRouting == InitRouting /\ [][Next]_vars

\* the orchestration loop on one interval alert, started with a lastRuns.json
\* that an earlier deployment left behind: no entry under the alert's name, a
\* timestamp, or the date string of a run made while the module under that
\* name had the schedule "daily"
InitRescheduled ==
    /\ now = StartTime
    /\ alerts = <<PacketLossAlert>>
    /\ lastRunsFile \in
           {FileOf([EmptyRuns(<<PacketLossAlert>>) EXCEPT ![PacketLossAlert.name] = m]) :
               m \in {Undef, Num(StartTime), getCurrentDateInTimezone(StartTime - Day)}}
    /\ lastRuns = loadLastRuns(lastRunsFile, <<PacketLossAlert>>)
    /\ ticks = <<>>
    /\ ticksStarted = 0
    /\ restarts = 0
    /\ env = ProductionEnv
    /\ dueLog = {}
    /\ lastCompl = NoCompl
    /\ lastDone = NoDone
    /\ lastEval = [i \in 1..1 |-> 0]
    /\ dailyHist = {}
    /\ RestInit

SpecRescheduled == InitRescheduled /\ [][Next]_vars

SpecSite == Init /\ [][SiteEvaluation]_vars

SpecCumulative == Init /\ [][(CumEvaluation \/ CumProcessRestart)]_vars

\* the chaos checks of one alert, from every content of the state file
InitChaos ==
    /\ LoopInit(Registry)
    /\ site = SiteInit
    /\ cum = CumInit
    /\ chaos \in {ChaosInit(f) :
                     f \in {ChaosFile("missing", 0), ChaosFile("unparsable", 0),
                            ChaosFile("noLastExecutions", 0),
                            ChaosFile("valid", 0), ChaosFile("valid", StartTime)}}
    /\ config = ConfigInit([timezone |-> Undef, dailyAlertHour |-> Undef])
    /\ parsed = ParsedInit(S_daily)
    /\ hook = HookInit
    /\ tw = TwInit
    /\ speed = SpeedInit

SpecChaos == InitChaos /\ [][ChaosCheck]_vars

\* the hourly checks of a daily alert under every config.json
\* the `timezone` and `dailyAlertHour` settings config.json can hold:
\* absent, or a value
InitConfig ==
    /\ LoopInit(Registry)
    /\ site = SiteInit
    /\ cum = CumInit
    /\ chaos = ChaosInit(ChaosFile("missing", 0))
    /\ config \in {ConfigInit(f) :
                      f \in [timezone : {Undef, Str(TZ_NewYork), Str(TZ_London),
                                         Str(TZ_Tokyo)},
                             dailyAlertHour : {Undef, Num(0), Num(9), Num(17),
                                               Num(23)}]}
    /\ parsed = ParsedInit(S_daily)
    /\ hook = HookInit
    /\ tw = TwInit
    /\ speed = SpeedInit

SpecConfig == InitConfig /\ [][HourCheck]_vars

\* parseSchedule on every schedule string
\* the characters of the strings tried: digits, units, and a letter that is
\* neither
\* the named schedules, a property name inherited from Object.prototype, and
\* schedule strings of the alert files
InitParse ==
    /\ LoopInit(Registry)
    /\ site = SiteInit
    /\ cum = CumInit
    /\ chaos = ChaosInit(ChaosFile("missing", 0))
    /\ config = ConfigInit([timezone |-> Undef, dailyAlertHour |-> Undef])
    /\ parsed \in {ParsedInit(cs) :
                      cs \in {S_daily, S_hourly, S_weekly, S_minute, S_constructor,
                              S_chaos, S_chaos10m, S_3h, S_12h} \cup
                             UNION {[1..n -> {"0", "9", "m", "s", "x"}] :
                                       n \in 0..MaxScheduleLen}}
    /\ hook = HookInit
    /\ tw = TwInit
    /\ speed = SpeedInit

SpecParse == InitParse /\ [][ParseSchedule]_vars

SpecHook == Init /\ [][ConsoleErrorCalled \/ ConsoleWarnCalled]_vars

SpecTimeWasted == Init /\ [][TimeWastedEvaluation]_vars

SpecSpeed == Init /\ [][SpeedEvaluation]_vars

-----------------------------------------------------------------------------
(* Properties *)

IsDaily(i) == parseSchedule(alerts[i].schedule) = Daily
IsInterval(i) == parseSchedule(alerts[i].schedule).k = "num"

\* C1: while the state file is written, every (site, milestone id) pair is among
\* the achievements of at most one notification, and of exactly one as soon as
\* an evaluation has observed the site's total at or above the threshold,
\* however many evaluations observe it afterwards.
C1_EachMilestoneNotifiedOnce ==
    ~site.saveFailed =>
        /\ \A p \in SiteKeys \X MilestoneIds : site.notified[p] <= 1
        /\ \A r \in DOMAIN SiteRows : \A k \in DOMAIN SiteMilestones :
              site.totals[r] >= SiteMilestones[k].gib =>
                  site.notified[<<MessageSiteName(SiteRows[r]), SiteMilestones[k].id>>] = 1

\* C1, the half that holds: while the state file is written, no (site,
\* milestone id) pair is among the achievements of two notifications.
C1_AtMostOnce ==
    ~site.saveFailed => \A p \in SiteKeys \X MilestoneIds : site.notified[p] <= 1

\* a later evaluation still observes Site A above 100GB and celebrates nothing
C1_AtMostOnceWitness ==
    /\ ~site.saveFailed
    /\ site.evals >= 2
    /\ site.last = "false"
    /\ site.totals[1] >= 100
    /\ site.notified[<<"Site A", "100GB">>] = 1

\* C2: an exception raised by an alert's query, condition, message or send
\* never makes the callback reject, and the callback goes on in the same tick
\* with the due-check of every later alert up to the next one it evaluates, or
\* to the end of the registry, where it returns.
C2_ExceptionIsolated ==
    /\ lastDone.how # "rejected"
    /\ (/\ lastCompl.how # "none"
        /\ lastCompl.excs \cap {"query", "condition", "message", "send"} # {}) =>
          /\ lastCompl.how \in {"ok", "caught"}
          /\ \A j \in (lastCompl.i + 1)..Min(lastCompl.next, N) :
                \E r \in dueLog : r.i = j /\ r.at = lastCompl.at
          /\ IF lastCompl.next > N
             THEN lastDone.how = "returned"
             ELSE \E s \in Slots : /\ ticks[s].idx = lastCompl.next
                                   /\ ticks[s].pc \in {"query", "critical"}

\* the message of the first alert threw and the callback is at a later alert
C2_Witness ==
    /\ lastCompl.how = "caught"
    /\ lastCompl.i = 1
    /\ "message" \in lastCompl.excs
    /\ lastCompl.next <= N
    /\ \E s \in Slots : ticks[s].idx = lastCompl.next /\ ticks[s].pc = "query"

\* C3: no two callbacks are inside the evaluation of the same alert at the
\* same time (a callback is inside the evaluation of alert idx from the
\* query to the last notification).
C3_NoOverlap ==
    \A s1 \in Slots : \A s2 \in Slots :
        (s1 # s2
         /\ ticks[s1].pc \in {"query", "dbNotice", "send", "fallback", "critical"}
         /\ ticks[s2].pc \in {"query", "dbNotice", "send", "fallback", "critical"})
            => ticks[s1].idx # ticks[s2].idx

\* C4: for an interval alert with interval D and marker T (0 when there is
\* none) the due-check answers due exactly when now - T >= D.
C4_IntervalDue ==
    \A r \in dueLog :
        (IsInterval(r.i) /\ r.seen.k \in {"undef", "num"}) =>
            LET D == parseSchedule(alerts[r.i].schedule).n
                T == IF r.seen.k = "num" THEN r.seen.n ELSE 0
            IN  (r.due = "due") <=> (r.at - T >= D)

\* a due-check exactly D after the recorded run, and it answers due
C4_Witness ==
    \E r \in dueLog :
        /\ IsInterval(r.i)
        /\ r.seen.k = "num"
        /\ r.at - r.seen.n = parseSchedule(alerts[r.i].schedule).n
        /\ r.due = "due"

C6_ChaosGate ==
    \A s \in Slots :
        (ticks[s].pc = "send" /\ isChaosSchedule(alerts[ticks[s].idx].schedule))
            => ticks[s].chaos = "fire"

\* C7: two evaluations of a chaos-scheduled alert start at least its check
\* interval apart.
C7_ChaosCheckInterval ==
    \A r \in dueLog :
        (isChaosSchedule(alerts[r.i].schedule) /\ r.due = "due" /\ r.prev # 0)
            => r.at - r.prev >= parseChaosSchedule(alerts[r.i].schedule.s)

\* C8: when the evaluation of an alert ends in the per-alert catch, its
\* RunState entry is the time of that tick for an interval alert and today's
\* date for a daily alert.
C8_RunStateAdvancedOnError ==
    lastCompl.how = "caught" =>
        lastRuns[alerts[lastCompl.i].name] =
            IF IsDaily(lastCompl.i) THEN getCurrentDateInTimezone(lastCompl.at)
            ELSE Num(lastCompl.at)

\* the message of the daily alert threw and its marker is today's date
C8_Witness ==
    /\ lastCompl.how = "caught"
    /\ IsDaily(lastCompl.i)
    /\ "message" \in lastCompl.excs
    /\ lastRuns[alerts[lastCompl.i].name].k = "str"

\* C9: the per-alert catch block never raises: no evaluation ends with the
\* callback rejecting.
C9_CatchNeverRaises == lastCompl.how # "crashed"

\* C10: when the query of an alert fails, the database error notice is
\* attempted, the condition is called with null in the same tick, and the
\* evaluation ends without an exception reaching the catch block; no alert
\* module's condition throws on null, nor its message after a true condition.
C10_QueryFailureTolerated ==
    /\ \A s \in Slots :
          ("query" \in ticks[s].excs /\ ticks[s].pc \in {"send", "fallback"}) =>
              ticks[s].notice /\ ticks[s].condArg = "null"
    /\ \A s \in Slots : "query" \in ticks[s].excs => ticks[s].pc # "critical"
    /\ (lastCompl.how # "none" /\ "query" \in lastCompl.excs) =>
          /\ lastCompl.notice
          /\ lastCompl.condArg = "null"
          /\ lastCompl.how = "ok"
    /\ \A a \in AllAlerts : \A e \in Envs :
          /\ "throw" \notin Condition(a, "null", e)
          /\ "true" \in Condition(a, "null", e) => "throw" \notin Message(a, "null")

\* the query of the status report failed, its condition was true on null and
\* the evaluation ended normally
C10_Witness ==
    /\ lastCompl.how = "ok"
    /\ "query" \in lastCompl.excs
    /\ lastCompl.condArg = "null"
    /\ alerts[lastCompl.i].kind = "always"

C12_DecisionStandsInProcess ==
    (cum.restarts = 0 /\ ~cum.loadFailed) =>
        \A k \in CumMilestones : cum.count[k] <= 1

\* C13: while the state file is written, an evaluation of the Site Download
\* Milestones alert that starts less than 10 minutes after the latest
\* celebration returns false from condition.
C13_CooldownAfterCelebration ==
    (~site.saveFailed /\ site.sincePrev >= 0 /\ site.sincePrev < 10 * Minute)
        => site.last = "false"

\* C14: while the state file is written, whenever two different rows (sites)
\* have both been observed at or above the threshold of the same milestone
\* id, each of the two (site, id) pairs has been reported as newly crossed.
C14_PerSiteIsolation ==
    ~site.saveFailed =>
        \A r1 \in DOMAIN SiteRows, r2 \in DOMAIN SiteRows, k \in DOMAIN SiteMilestones :
            (/\ r1 # r2
             /\ site.totals[r1] >= SiteMilestones[k].gib
             /\ site.totals[r2] >= SiteMilestones[k].gib)
            => /\ site.notified[<<MessageSiteName(SiteRows[r1]), SiteMilestones[k].id>>] >= 1
               /\ site.notified[<<MessageSiteName(SiteRows[r2]), SiteMilestones[k].id>>] >= 1

\* C14 for rows that carry a test_site: the isolation holds between them
C14_NamedSitesIsolation ==
    ~site.saveFailed =>
        \A r1 \in DOMAIN SiteRows, r2 \in DOMAIN SiteRows, k \in DOMAIN SiteMilestones :
            (/\ r1 # r2
             /\ SiteRows[r1] # "" /\ SiteRows[r2] # ""
             /\ site.totals[r1] >= SiteMilestones[k].gib
             /\ site.totals[r2] >= SiteMilestones[k].gib)
            => /\ site.notified[<<MessageSiteName(SiteRows[r1]), SiteMilestones[k].id>>] = 1
               /\ site.notified[<<MessageSiteName(SiteRows[r2]), SiteMilestones[k].id>>] = 1

\* two named sites at the same milestone in different evaluations
C14_NamedSitesWitness ==
    /\ ~site.saveFailed
    /\ site.evals >= 2
    /\ site.totals[1] >= 100 /\ site.totals[3] >= 100 /\ site.totals[2] = 0
    /\ site.last = "false"

\* the state file of the cumulative alert has been persisted so far: every
\* write succeeded, the file survived every restart, every load returned it
CumFilePersisted == ~cum.saveFailed /\ ~cum.fileLost /\ ~cum.loadFailed

\* C15: as long as the state file is persisted, for each k >= 1 the condition
\* of the Cumulative Data Milestone alert has returned true with current
\* milestone k at most once, over all evaluations and across restarts.
C15_EachTBAtMostOnce ==
    CumFilePersisted => \A k \in CumMilestones : cum.count[k] <= 1

\* milestone 1 was celebrated, the process restarted, and an evaluation past
\* the cooldown with milestone 1 still current returned false
C15_Witness ==
    /\ CumFilePersisted
    /\ cum.restarts = 1
    /\ cum.count[1] = 1
    /\ CurrentMilestone(cum.total) = 1
    /\ cum.sending = 0
    /\ cum.evals >= 3
    /\ now - cum.file.lastCelebrationTime >= 10 * Minute

\* Once the total has passed milestone k without a celebration of k, no later
\* evaluation celebrates k: condition looks at Math.floor(totalTB) only and
\* the total never decreases.
C16_LeftBehindForever ==
    [][\A k \in CumMilestones :
          (cum.count[k] = 0 /\ CurrentMilestone(cum.total) > k) => cum'.count[k] = 0]_vars

\* C16: every terabyte is celebrated.  With the state file persisted, a
\* milestone k that the total has passed has had its celebration; by
\* C16_LeftBehindForever a state where it has not is one from which the
\* celebration of k never occurs, however long the alert keeps being evaluated.
C16_EveryTBCelebrated ==
    CumFilePersisted =>
        \A k \in CumMilestones : CurrentMilestone(cum.total) > k => cum.count[k] >= 1

\* C17, for the cumulative alert: across evaluations with load failures and
\* save failures, every milestone that was in the celebrated set of the state
\* file before an evaluation is still in it after the evaluation.
C17_CelebratedSetOnlyGrows ==
    cum.restarts = 0 => cum.prevFile.celebratedTB \subseteq cum.file.celebratedTB

\* C18: whenever the due-check has just answered true for a daily alert, the
\* local hour in the configured timezone is the configured dailyAlertHour
\* (the hour and the timezone config.json asks for: the setting when it is
\* present, the documented default when it is absent).
C18_DueOnlyAtConfiguredHour ==
    LET file == config.file
        ConfiguredHour ==
            IF file.dailyAlertHour = Undef THEN DefaultDailyAlertHour
            ELSE file.dailyAlertHour.n
        ConfiguredTimezone ==
            IF file.timezone = Undef THEN TZ_NewYork ELSE file.timezone.s
    IN  (config.checks >= 1 /\ config.due) =>
            isCurrentlyDailyAlertHourIn(ConfiguredTimezone, ConfiguredHour, now)

\* C19: the chance used by every chaos check is baseChance when no time has
\* elapsed since the last recorded execution, never exceeds baseChance *
\* maxMultiplier, is 5% at 1.5 h and 15% at 9 h, and of two successive checks
\* the one with the longer elapsed time has the chance that is not smaller.
C19_ChanceMonotoneCapped ==
    chaos.checks >= 1 =>
        /\ chaos.elapsed = 0 => chaos.chance = Pct(BaseChancePct)
        /\ chaos.chance <= Pct(BaseChancePct * MaxMultiplier)
        /\ chaos.elapsed = 90 * Minute => chaos.chance = Pct(5)
        /\ chaos.elapsed = 9 * Hour => chaos.chance = Pct(15)
        /\ chaos.checks >= 2 =>
              /\ chaos.prevElapsed <= chaos.elapsed => chaos.prevChance <= chaos.chance
              /\ chaos.prevElapsed >= chaos.elapsed => chaos.prevChance >= chaos.chance

\* a check at 3 h with the base chance, then one at 9 h with the maximum
C19_Witness ==
    /\ chaos.checks >= 2
    /\ chaos.prevElapsed = 3 * Hour /\ chaos.prevChance = Pct(5)
    /\ chaos.elapsed = 9 * Hour /\ chaos.chance = Pct(15)

\* a check with no time elapsed since the recorded execution
C19_WitnessZero ==
    /\ chaos.checks >= 1
    /\ chaos.elapsed = 0
    /\ chaos.chance = Pct(5)

\* C20: at every chaos check made 3 hours or more after the last recorded
\* execution the chance is the maximum, 3 times the base chance (15%).
C20_MaxChanceAfter3h ==
    (chaos.checks >= 1 /\ chaos.elapsed >= 3 * Hour) =>
        chaos.chance = Pct(BaseChancePct * MaxMultiplier)

\* C21: a call of the wrapped chaos condition in which the draw failed, or
\* the draw succeeded and the original condition returned false, leaves
\* lastExecutions[name] and the state file as they were before the call.
C21_ChaosStateWrittenOnlyOnFire ==
    (chaos.calls >= 1 /\ ~(chaos.shouldRun /\ chaos.cond)) =>
        /\ chaos.state = chaos.prevState
        /\ chaos.file = chaos.prevFile

\* after an execution recorded in this process, a call whose draw succeeded
\* and whose original condition returned false
C21_Witness ==
    /\ chaos.calls >= 2
    /\ chaos.shouldRun /\ ~chaos.cond
    /\ chaos.state.lastExecution > StartTime
    /\ chaos.file.lastExecution = chaos.state.lastExecution

\* C22: no call of shouldChaosAlertRun raises, whatever the state file held
\* when the service was constructed.
C22_ShouldChaosAlertRunNeverRaises == ~chaos.raised

\* the forms of schedule string that parseSchedule recognizes
RecognizedSchedule(cs) ==
    \/ cs \in {S_daily, S_hourly, S_weekly, S_minute}
    \/ MatchesInterval(cs)

\* C23: for every string parseSchedule returns the daily marker or a
\* non-negative number of milliseconds, and 60000 for every string that is
\* not of a recognized form.
C23_ParseScheduleTotal ==
    parsed.done =>
        /\ \/ parsed.result = Daily
           \/ parsed.result.k = "num" /\ parsed.result.n >= 0
        /\ ~RecognizedSchedule(parsed.schedule.s) => parsed.result = Num(60000)

\* C23 for every string that is not the name of a property objects inherit
C23_ParseScheduleTotalOwnNames ==
    (parsed.done /\ parsed.schedule.s # S_constructor) =>
        /\ \/ parsed.result = Daily
           \/ parsed.result.k = "num" /\ parsed.result.n >= 0
        /\ ~RecognizedSchedule(parsed.schedule.s) => parsed.result = Num(60000)

\* the process has just started: nothing in flight, nothing logged yet
JustStarted == ticks = <<>> /\ lastDone = NoDone /\ lastCompl = NoCompl /\ dueLog = {}

C24_WitnessNoFile ==
    /\ JustStarted
    /\ restarts = 1
    /\ ~lastRunsFile.exists
    /\ \E h \in dailyHist : h.proc = 0

C26_SavedIffSomeAlertDue ==
    lastDone.how # "none" =>
        /\ lastCompl.how # "none" => (lastDone.how = "returned" /\ lastDone.need)
        /\ lastCompl.how = "none" =>
              /\ \A r \in dueLog : r.due = "skip"
              /\ ~lastDone.need /\ ~lastDone.wrote

C27_Witness ==
    /\ isTestMode(env)
    /\ \E s \in 1..Len(ticks) :
           ticks[s].pc = "send" /\ ticks[s].webhook = alertWebhookClient

C28_AtMostFivePerWindow ==
    Len(hook.sent) = MAX_ERRORS_PER_MINUTE + 1 =>
        hook.sent[Len(hook.sent)] - hook.sent[1] > ERROR_RATE_LIMIT_MS

\* five notifications, the rate-limit notice, and a sixth notification after
\* the counter was reset
C28_Witness ==
    /\ Len(hook.sent) = MAX_ERRORS_PER_MINUTE + 1
    /\ hook.notices = 1
    /\ hook.lastCall = "sent"
    /\ hook.sent[MAX_ERRORS_PER_MINUTE] - hook.sent[1] <= ERROR_RATE_LIMIT_MS

\* the example/demonstration alert modules
ExampleAlerts == {ChaosExampleAlert, TimeWastedChaosAlert, ManualTestAlert}

\* C29: outside test mode the condition of an example alert returns false on
\* every query result, and the loop sends no notification of an example alert.
\* What the query hands to condition and message: null (the query failed),
\* an empty array, or an array of rows.
C29_ExampleAlertsSilentInProduction ==
    ~AlertTestMode(env) =>
        /\ \A a \in ExampleAlerts : \A r \in {"null", "empty", "rows"} :
               Condition(a, r, env) = {"false"}
        /\ \A s \in Slots :
               ticks[s].pc \in {"send", "fallback"} => alerts[ticks[s].idx] \notin ExampleAlerts

\* a "YYYY-MM-DD" date string
IsDateString(v) ==
    /\ v.k = "str"
    /\ Len(v.s) = 3
    /\ v.s[2] \in 1..12
    /\ v.s[3] \in 1..31

\* a millisecond timestamp
IsTimestamp(v) == v.k = "num" /\ v.n > 0

C31_NamedMilestoneIsMarked ==
    ~tw.saveFailed =>
        /\ tw.fired => tw.named = tw.marked
        /\ \A k \in DOMAIN TwMilestones : tw.announced[k] <= 1

\* C32: while the state file is written, a notification of the site
\* milestone alert never carries the "vanished" text: after a true condition
\* the message finds at least one new achievement.
C32_MessageFindsAchievement ==
    ~site.saveFailed => site.last # "vanished"

\* C33: while the state file is written, a firing of the Dramatic Speed
\* Change alert less than one hour after the firing before it saw a change
\* strictly greater than 80%.
C33_HourlyUnlessSuperDramatic ==
    (/\ ~speed.saveFailed
     /\ speed.fired
     /\ speed.prevFiredAt # 0
     /\ speed.firedAt - speed.prevFiredAt < Hour) =>
        PercentChangeOver(speed.pair[1], speed.pair[2], 80)

\* C38: while the state file is written, the Dramatic Speed Change alert
\* does not fire on the query results it has already fired on.
C38_OneNotificationPerPair ==
    ~speed.saveFailed => ~speed.refired

C35_WarningsRateLimited == hook.warnRun <= MAX_ERRORS_PER_MINUTE

\* C40: a call of console.error or console.warn starts at most one delivery,
\* and a delivery that failed is reported with the original console.error
\* only.
C40_FailureNotRetried ==
    /\ hook.attempts <= 1
    /\ hook.failed => hook.reported = "originalConsoleError"

\* the delivery of an error notification has failed below the limit
C40_Witness ==
    /\ hook.lastCall = "sent"
    /\ hook.failed
    /\ hook.attempts = 1
    /\ hook.errorCount < MAX_ERRORS_PER_MINUTE

\* the delivery of a warning notification has failed below the limit
C40_WitnessWarning ==
    /\ hook.lastCall = "warned"
    /\ hook.failed
    /\ hook.attempts = 1
    /\ hook.errorCount < MAX_ERRORS_PER_MINUTE


\* C36: parseChaosSchedule("chaos:" followed by a suffix) is the interval
\* parseSchedule gives for the suffix, for the suffixes "hourly", "weekly",
\* "minute" and <digits><s|m|h|d>, and parseChaosSchedule("chaos") is 15
\* minutes.
C36_ChaosSuffixParsedAsInterval ==
    parsed.done =>
        /\ parsed.schedule.s = S_chaos => parsed.chaos = 15 * Minute
        /\ (parsed.schedule.s \in {S_hourly, S_weekly, S_minute}
            \/ MatchesInterval(parsed.schedule.s))
               => parsed.result = Num(parsed.chaosOfSuffix)


\* C37: a step of the loop in which the due-check skips an alert as not due
\* leaves the RunState entry of that alert as it was and issues no query for
\* it (every notification of an alert follows its query), whatever the same
\* step does for the alerts that were due.
C37_SkippedAlertUntouched ==
    [][\A r \in dueLog' :
           r.due = "skip" =>
               /\ lastRuns'[alerts[r.i].name] = lastRuns[alerts[r.i].name]
               /\ lastEval'[r.i] = lastEval[r.i]]_vars

\* a callback has just completed the run of one alert, which set its entry,
\* and has skipped a later alert that had run before
C37_Witness ==
    \E r \in dueLog :
        /\ r.due = "skip"
        /\ r.seen # Undef
        /\ lastCompl.how = "ok"
        /\ lastCompl.at = r.at
        /\ lastCompl.i < r.i
        /\ lastRuns[alerts[lastCompl.i].name] = Num(r.at)
        /\ lastRuns[alerts[r.i].name] = r.seen


\* C39: the due-check skips an interval alert only while less than one
\* interval has passed since its marker was written, for a timestamp marker,
\* or since the process started, for an absent marker or a date string (in
\* the first process of a behaviour, which started at StartTime).
C39_IntervalAlertDueAgain ==
    \A r \in dueLog :
        (IsInterval(r.i) /\ r.due = "skip") =>
            IF r.seen.k = "num"
            THEN r.at - r.seen.n < parseSchedule(alerts[r.i].schedule).n
            ELSE restarts = 0 =>
                     r.at - StartTime < parseSchedule(alerts[r.i].schedule).n

====
